---- MODULE Spec2Model ----
(***************************************************************************)
(* The workflow of backend/master_agent.py (a StateGraph over AgentState,  *)
(* compiled with an in-memory checkpointer) and its two callers in         *)
(* backend/main.py (the /analyze and /chat handlers).                      *)
(*                                                                         *)
(* A session state is a function from the field names that are set to      *)
(* their values, as the Python mapping is: a field that was never written  *)
(* is not in its DOMAIN.  Values that the code computes from file contents *)
(* or from an LLM answer are abstracted to the session whose upload they   *)
(* derive from, so that flows of data between sessions stay visible.       *)
(***************************************************************************)
EXTENDS Integers, Sequences, FiniteSets, TLC

VARIABLES inv, ckpt, fd, started, faults, reply, mrg

vars == <<inv, ckpt, fd, started, faults, reply, mrg>>

\* ------------------------------------------------------------------ bounds

\* Invocations started in one behaviour.
MaxInvokes == 3

\* Exceptions in one behaviour that come from outside the state (a failed LLM
\* call, an unreadable file); those the state forces are not counted.
MaxFaults == 1

\* Invocations that can be in flight at once (request slots).
MaxSlots == 2

\* Executor attempts counted per invocation (a cap for the history counter).
MaxExecRuns == 5

Sessions == {"A", "B"}

Slots == 1..MaxSlots

\* ------------------------------------------------------------------ values

\* Python's None.
Null == "None"

NoFile == "nofile"

NoSession == "nosession"

\* static/cleaned_data.csv, the one path every sanitizer run writes.
CleanedPath == "static/cleaned_data.csv"

\* uploads/<thread_id>_<filename>: one upload path per session.
UploadPath(s) == "uploads/" \o s

Paths == {UploadPath(s) : s \in Sessions} \cup {CleanedPath}

\* The text of a follow-up question of session s.
Query(s) == "q_" \o s

\* bool(v) of a str-or-None value.
Truthy(v) == v \notin {Null, ""}

\* state.get(f): None when the field is not set.
Get(st, f) == IF f \in DOMAIN st THEN st[f] ELSE Null

Has(st, f) == f \in DOMAIN st

\* ------------------------------------------------------------- AgentState

Fields ==
  {"csv_path", "user_query", "data_profile", "key_findings", "viz_results",
   "chat_history", "data_summary", "analysis_plan", "viz_code", "kpis",
   "external_context", "final_report", "error_log", "retry_count"}

\* chat_history declared without its reducer annotation (a mutant).
AppendFieldsNone == {}

\* Annotated[..., operator.add]
AppendFields == {"chat_history"}

ReplaceFields == Fields \ AppendFields

\* The state of a session that has no checkpoint: the reducer channel starts
\* as the empty list, every other field is unset.
EmptyState == [chat_history |-> <<>>]

\* chat_history merged as a plain field (a mutant of the declared reducer).
MergeFieldReplaceAll(f, old, new) == new

\* A reducer that skips an update the history already ends with (a mutant: it
\* makes the APPEND policy idempotent).
MergeFieldDedup(f, old, new) ==
  IF f \in AppendFields
    THEN IF /\ Len(new) <= Len(old)
            /\ SubSeq(old, Len(old) - Len(new) + 1, Len(old)) = new
           THEN old
           ELSE old \o new
    ELSE new

\* One field of the merge: operator.add for the annotated field, overwrite
\* for the others.
MergeField(f, old, new) == IF f \in AppendFields THEN old \o new ELSE new

\* The state after a partial update is applied.
Merge(st, upd) ==
  [f \in (DOMAIN st \cup DOMAIN upd) |->
     IF f \in DOMAIN upd
       THEN IF f \in DOMAIN st THEN MergeField(f, st[f], upd[f]) ELSE upd[f]
       ELSE st[f]]

\* -------------------------------------------------------------- outcomes

\* What one node execution gives: a partial update, or an exception.
Ret(upd) == [raised |-> FALSE, upd |-> upd]

Raise == [raised |-> TRUE]

\* Whether pd.read_csv(state['csv_path']) can succeed.
Readable(st, files) ==
  /\ Has(st, "csv_path")
  /\ st.csv_path \in Paths
  /\ files[st.csv_path] # NoFile

\* ----------------------------------------------------------------- nodes

\* profiler_node without the counter in its update (a mutant).
profiler_node_no_reset(st, files) ==
  IF ~Has(st, "csv_path") \/ st.csv_path = Null
    THEN {Raise}
  ELSE IF st.csv_path \notin Paths \/ files[st.csv_path] = NoFile
    THEN {Ret([error_log |-> "File not found"])}
  ELSE {Raise,
        Ret([data_profile |-> [of |-> files[st.csv_path], graded |-> FALSE],
             data_summary |-> files[st.csv_path],
             chat_history |-> <<>>,
             viz_results |-> <<>>,
             key_findings |-> <<>>])}

profiler_node(st, files) ==
  IF ~Has(st, "csv_path") \/ st.csv_path = Null
    THEN {Raise}
  ELSE IF st.csv_path \notin Paths \/ files[st.csv_path] = NoFile
    THEN {Ret([error_log |-> "File not found", retry_count |-> 5])}
  ELSE {Raise,
        Ret([data_profile |-> [of |-> files[st.csv_path], graded |-> FALSE],
             data_summary |-> files[st.csv_path],
             chat_history |-> <<>>,
             viz_results |-> <<>>,
             key_findings |-> <<>>,
             retry_count |-> 0])}

auditor_node(st, files) ==
  IF ~Readable(st, files) \/ ~Has(st, "data_profile")
    THEN {Raise}
    ELSE {Raise,
          Ret([data_profile |-> [st.data_profile EXCEPT !.graded = TRUE]])}

\* The data that sanitizer_node writes to static/cleaned_data.csv.
SanitizedData(st, files) == files[st.csv_path]

sanitizer_node(st, files) ==
  IF ~Readable(st, files)
    THEN {Raise}
    ELSE {Raise,
          Ret([csv_path |-> CleanedPath, error_log |-> "Data Sanitized."])}

kpi_node(st, files) ==
  IF ~Readable(st, files)
    THEN {Raise}
    ELSE {Raise, Ret([kpis |-> [of |-> files[st.csv_path]]])}

context_weaver_node(st, files) ==
  IF ~Has(st, "data_summary")
    THEN {Raise}
    ELSE {Raise, Ret([external_context |-> st.data_summary])}

strategist_node(st, files) ==
  IF ~Has(st, "data_summary")
    THEN {Raise}
    ELSE {Raise,
          Ret([analysis_plan |-> <<"plot">>]),
          Ret([error_log |-> "Strategist JSON parsing failure"])}

coder_node(st, files) ==
  IF ~Has(st, "analysis_plan") \/ ~Has(st, "error_log")
    THEN {Raise}
    ELSE {Raise,
          Ret([viz_code |-> IF Truthy(st.error_log) THEN "code_fix" ELSE "code"])}

\* str(e) of the exception that exec raised: it can be the empty string.
ExecErrors == {"NameError", ""}

\* The counter that executor_node returns (a mutant: it is not incremented).
NextRetryCountSame(st) == st.retry_count

\* The counter that executor_node returns.
NextRetryCount(st) == st.retry_count + 1

executor_node(st, files) ==
  IF ~Readable(st, files) \/ ~Has(st, "viz_code") \/ ~Has(st, "retry_count")
    THEN {Raise}
    ELSE {Raise,
          Ret([viz_results |-> [i \in 1..Len(st.analysis_plan) |->
                                  [title |-> st.analysis_plan[i], described |-> FALSE]],
               error_log |-> "",
               retry_count |-> NextRetryCount(st)])}
         \cup {Ret([error_log |-> e, retry_count |-> NextRetryCount(st)]) :
                 e \in ExecErrors}

analyst_node(st, files) ==
  IF ~Has(st, "kpis") \/ ~Has(st, "external_context") \/ ~Has(st, "viz_results")
    THEN {Raise}
    ELSE {Raise,
          Ret([key_findings |-> <<st.kpis.of>>,
               viz_results |-> [i \in 1..Len(st.viz_results) |->
                                  [st.viz_results[i] EXCEPT !.described = TRUE]],
               final_report |-> "llm"])}

pdf_generator_node(st, files) ==
  IF ~Has(st, "viz_results")
    THEN {Raise}
    ELSE {Raise, Ret([final_report |-> "Report Generated"])}

\* The messages that follow_up_node returns (a mutant: question and answer).
ChatMessagesWithQuestion(st) ==
  <<[ctx |-> "human", q |-> st.user_query],
    [ctx |-> st.data_profile.of, q |-> st.user_query]>>

\* The messages that follow_up_node returns: the one LLM response.
ChatMessages(st) == <<[ctx |-> st.data_profile.of, q |-> st.user_query]>>

follow_up_node(st, files) ==
  IF \/ ~Has(st, "data_profile") \/ ~Has(st, "key_findings")
     \/ ~Has(st, "user_query") \/ st.user_query = Null
    THEN {Raise}
    ELSE {Raise, Ret([chat_history |-> ChatMessages(st)])}

\* The state mapping auditor_node was called with, as the node leaves it:
\* profile is state['data_profile'] itself, and the grade and the score are
\* assigned into it before the node returns.
auditor_node_state_after(st, files) ==
  IF Readable(st, files) /\ Has(st, "data_profile")
    THEN [st EXCEPT !.data_profile.graded = TRUE]
    ELSE st

\* The state mapping analyst_node was called with, as the node leaves it: the
\* loop assigns the description into each entry of state['viz_results'].
analyst_node_state_after(st, files) ==
  IF Has(st, "kpis") /\ Has(st, "external_context") /\ Has(st, "viz_results")
    THEN [st EXCEPT !.viz_results =
            [k \in 1..Len(@) |-> [@[k] EXCEPT !.described = TRUE]]]
    ELSE st

\* The state mapping a node was called with, as a run of the node that gets
\* to its return statement leaves it; the other nodes only read it.
StateAfter(node, st, files) ==
  CASE node = "auditor" -> auditor_node_state_after(st, files)
    [] node = "analyst" -> analyst_node_state_after(st, files)
    [] OTHER -> st

\* --------------------------------------------------------------- routing

\* The retry bound of the cycle router.
MaxRetries == 3

\* The entry router reading only user_query (a mutant).
route_start_query_only(st) ==
  IF Truthy(Get(st, "user_query")) THEN "chat" ELSE "profiler"

route_start(st) ==
  IF Truthy(Get(st, "user_query")) /\ ~Truthy(Get(st, "csv_path"))
    THEN "chat"
    ELSE "profiler"

\* The cycle router with the bound off by one (a mutant).
router_inclusive(st) ==
  IF Truthy(st.error_log) /\ st.retry_count <= MaxRetries
    THEN "retry"
    ELSE "finalize"

\* The cycle router deciding on the counter alone (a mutant).
router_counter_only(st) ==
  IF st.retry_count < MaxRetries THEN "retry" ELSE "finalize"

router(st) ==
  IF Truthy(st.error_log) /\ st.retry_count < MaxRetries
    THEN "retry"
    ELSE "finalize"

\* The edges with pdf wired into chat instead of END (a mutant).
NextNodePdfToChat(node, st) ==
  CASE node = "pdf" -> "chat"
    [] node = "executor" ->
         IF router(st) = "retry" THEN "coder" ELSE "analyst"
    [] node = "chat" -> "END"
    [] node = "profiler" -> "auditor"
    [] node = "auditor" -> "sanitizer"
    [] node = "sanitizer" -> "kpi"
    [] node = "kpi" -> "context"
    [] node = "context" -> "strategist"
    [] node = "strategist" -> "coder"
    [] node = "coder" -> "executor"
    [] node = "analyst" -> "pdf"

\* The edges of the workflow: the node that follows `node` in state st.
NextNode(node, st) ==
  CASE node = "profiler" -> "auditor"
    [] node = "auditor" -> "sanitizer"
    [] node = "sanitizer" -> "kpi"
    [] node = "kpi" -> "context"
    [] node = "context" -> "strategist"
    [] node = "strategist" -> "coder"
    [] node = "coder" -> "executor"
    [] node = "executor" ->
         IF router(st) = "retry" THEN "coder" ELSE "analyst"
    [] node = "analyst" -> "pdf"
    [] node = "pdf" -> "END"
    [] node = "chat" -> "END"

\* The state the conditional entry point is evaluated on, taken to be the
\* initial input alone (a mutant).
EntryStateInputOnly(base, inp) == inp

\* The state the conditional entry point is evaluated on: the checkpoint with
\* the initial input merged into it.
EntryState(base, inp) == Merge(base, inp)

\* ---------------------------------------------------------- checkpointer

\* One thread_id for every request (a mutant).
ThreadKeyShared(s) == "A"

\* config = {"configurable": {"thread_id": thread_id}}
ThreadKey(s) == s

Load(store, s) == store[ThreadKey(s)]

\* A graph compiled without its checkpointer (a mutant).
PersistNothing(store, s, st) == store

\* The checkpoint written for the session after a step.
Persist(store, s, st) == [store EXCEPT ![ThreadKey(s)] = st]

\* --------------------------------------------------------------- handlers

Running == {"profiler", "auditor", "sanitizer", "kpi", "context", "strategist",
            "coder", "executor", "analyst", "pdf", "chat"}

Stopped == {"END", "aborted"}

Idle ==
  [pc |-> "idle", sess |-> NoSession, inp |-> EmptyState, base |-> EmptyState,
   st |-> EmptyState, entry |-> "none", at |-> "none", execRuns |-> 0,
   allErr |-> TRUE]

NoReply == "none"

NoMerge == [pre |-> EmptyState, upd |-> EmptyState, post |-> EmptyState]

InFlight(i) == inv[i].pc # "idle"

\* Handlers that run on worker threads (a mutant): a request is taken up
\* while another one is being served.
HandlerMayStartAnyTime == TRUE

\* Both handlers are coroutines that call the blocking invoke without ever
\* awaiting: the event loop serves one request from start to end.
HandlerMayStart == \A j \in Slots : ~InFlight(j)

\* A handler that answers 200 whatever happened (a mutant).
HandlerStatusAlwaysOk(r) == "200"

\* The handler's answer: the final state's fields, or HTTP 500 when invoke
\* raised.
HandlerStatus(r) == IF r.pc = "aborted" THEN "500" ELSE "200"

\* Session identifiers are interchangeable (uuid4 names): "B" names the
\* session that comes into use second.
SessionOrder(s) == s = "B" => ckpt["A"] # EmptyState

\* The input shapes other than the two the handlers send.
DirectInputs(s) ==
  {[csv_path |-> UploadPath(s)], [user_query |-> Query(s)]}

\* ---------------------------------------------------------------- actions

Init ==
  /\ inv = [i \in Slots |-> Idle]
  /\ ckpt = [s \in Sessions |-> EmptyState]
  /\ fd = [p \in Paths |-> NoFile]
  /\ started = 0
  /\ faults = 0
  /\ reply = NoReply
  /\ mrg = NoMerge

\* app.invoke(inp, config) up to the first node: the checkpoint is loaded, the
\* input merged and saved, and the entry node resolved.
BeginInvoke(i, s, inp) ==
  /\ started < MaxInvokes
  /\ SessionOrder(s)
  /\ HandlerMayStart
  /\ ~InFlight(i)
  /\ \A j \in Slots : j < i => InFlight(j)
  /\ LET base == Load(ckpt, s)
         st0 == Merge(base, inp)
         entry == route_start(EntryState(base, inp))
     IN /\ inv' = [inv EXCEPT ![i] =
                     [pc |-> entry, sess |-> s, inp |-> inp, base |-> base,
                      st |-> st0, entry |-> entry, at |-> "none",
                      execRuns |-> 0, allErr |-> TRUE]]
        /\ ckpt' = Persist(ckpt, s, st0)
        /\ mrg' = [pre |-> base, upd |-> inp, post |-> st0]
  /\ started' = started + 1
  /\ UNCHANGED <<faults, reply>>

\* POST /analyze: a fresh uuid4 session, the upload saved under its own name,
\* then the full pipeline.
StartAnalysis(i, s) ==
  /\ Load(ckpt, s) = EmptyState
  /\ fd[UploadPath(s)] = NoFile
  /\ \A j \in Slots : inv[j].sess # s
  /\ fd' = [fd EXCEPT ![UploadPath(s)] = s]
  /\ BeginInvoke(i, s, [csv_path |-> UploadPath(s), user_query |-> Null])

\* POST /chat sending a whole fresh state as its input (a mutant).
FollowUpChatFreshState(i, s) ==
  /\ BeginInvoke(i, s, [user_query |-> Query(s), csv_path |-> Null,
                        error_log |-> "", retry_count |-> 0])
  /\ UNCHANGED fd

\* POST /chat: any thread_id, csv_path passed as None.
FollowUpChat(i, s) ==
  /\ BeginInvoke(i, s, [user_query |-> Query(s), csv_path |-> Null])
  /\ UNCHANGED fd

\* app.invoke with another input shape.
DirectInvoke(i, s, inp) ==
  /\ BeginInvoke(i, s, inp)
  /\ UNCHANGED fd

\* One node of the graph: the node runs on the current state; its update is
\* merged and the checkpoint saved, and the edges give the next node; an
\* exception ends the invocation.
RunNode(i, node, outs, files) ==
  /\ inv[i].pc = node
  /\ \E r \in outs :
       IF r.raised
         THEN /\ outs = {Raise} \/ faults < MaxFaults
              /\ faults' = IF outs = {Raise} THEN faults ELSE faults + 1
              /\ inv' = [inv EXCEPT ![i].pc = "aborted", ![i].at = node]
              /\ UNCHANGED <<ckpt, fd, mrg>>
         ELSE LET st1 == Merge(inv[i].st, r.upd)
                  ran == node = "executor"
              IN /\ inv' = [inv EXCEPT
                       ![i].st = st1,
                       ![i].pc = NextNode(node, st1),
                       ![i].execRuns =
                          IF ran /\ @ < MaxExecRuns THEN @ + 1 ELSE @,
                       ![i].allErr =
                          IF ran THEN @ /\ Truthy(r.upd.error_log) ELSE @]
                 /\ ckpt' = Persist(ckpt, inv[i].sess, st1)
                 /\ mrg' = [pre |-> inv[i].st, upd |-> r.upd, post |-> st1]
                 /\ fd' = files
                 /\ UNCHANGED faults
  /\ UNCHANGED <<started, reply>>

ProfilerStep(i) == RunNode(i, "profiler", profiler_node(inv[i].st, fd), fd)

AuditorStep(i) == RunNode(i, "auditor", auditor_node(inv[i].st, fd), fd)

SanitizerStep(i) ==
  RunNode(i, "sanitizer", sanitizer_node(inv[i].st, fd),
          [fd EXCEPT ![CleanedPath] = SanitizedData(inv[i].st, fd)])

KpiStep(i) == RunNode(i, "kpi", kpi_node(inv[i].st, fd), fd)

ContextStep(i) == RunNode(i, "context", context_weaver_node(inv[i].st, fd), fd)

StrategistStep(i) == RunNode(i, "strategist", strategist_node(inv[i].st, fd), fd)

CoderStep(i) == RunNode(i, "coder", coder_node(inv[i].st, fd), fd)

ExecutorStep(i) == RunNode(i, "executor", executor_node(inv[i].st, fd), fd)

AnalystStep(i) == RunNode(i, "analyst", analyst_node(inv[i].st, fd), fd)

PdfStep(i) == RunNode(i, "pdf", pdf_generator_node(inv[i].st, fd), fd)

ChatStep(i) == RunNode(i, "chat", follow_up_node(inv[i].st, fd), fd)

\* invoke returns the final state or raises; the handler answers.
Return(i) ==
  /\ inv[i].pc \in Stopped
  /\ reply' = HandlerStatus(inv[i])
  /\ inv' = [inv EXCEPT ![i] = Idle]
  /\ mrg' = NoMerge
  /\ UNCHANGED <<ckpt, fd, started, faults>>

NodeStep(i) ==
  \/ ProfilerStep(i)
  \/ AuditorStep(i)
  \/ SanitizerStep(i)
  \/ KpiStep(i)
  \/ ContextStep(i)
  \/ StrategistStep(i)
  \/ CoderStep(i)
  \/ ExecutorStep(i)
  \/ AnalystStep(i)
  \/ PdfStep(i)
  \/ ChatStep(i)

Next ==
  \/ \E i \in Slots, s \in Sessions : StartAnalysis(i, s)
  \/ \E i \in Slots, s \in Sessions : FollowUpChat(i, s)
  \/ \E i \in Slots, s \in Sessions : \E inp \in DirectInputs(s) : DirectInvoke(i, s, inp)
  \/ \E i \in Slots : NodeStep(i)
  \/ \E i \in Slots : Return(i)

Spec == Init /\ [][Next]_vars

\* A node that has started returns or raises, and invoke then returns.
FairSpec == Spec /\ \A i \in Slots : WF_vars(NodeStep(i)) /\ WF_vars(Return(i))

\* ----------------------------------------------------------------- claims

\* C1: in an invocation that entered at profiler and whose executor attempts
\* all returned a non-empty error_log, executor runs at most MaxRetries (3)
\* times; when the cycle router forwards to analyst there have been exactly 3
\* attempts, retry_count is 3 and error_log is still non-empty; a fourth
\* attempt is never started.
C1_CycleBound ==
  \A i \in Slots :
    (inv[i].entry = "profiler" /\ inv[i].allErr) =>
      /\ inv[i].execRuns <= MaxRetries
      /\ inv[i].pc \in {"coder", "executor"} => inv[i].execRuns < MaxRetries
      /\ inv[i].pc = "analyst" =>
           /\ inv[i].execRuns = MaxRetries
           /\ inv[i].st.retry_count = MaxRetries
           /\ Truthy(inv[i].st.error_log)

\* C1 witness: the router has forwarded to analyst after three failed attempts.
C1_Witness ==
  \E i \in Slots :
    /\ inv[i].pc = "analyst"
    /\ inv[i].allErr
    /\ inv[i].execRuns = MaxRetries
    /\ Truthy(inv[i].st.error_log)

\* C2: under fair scheduling (a started node returns or raises, invoke then
\* returns) every invocation that is running eventually stops, at END or
\* aborted, whatever checkpoint it started from.
C2_Termination ==
  \A i \in Slots : (inv[i].pc \in Running) ~> (inv[i].pc \in Stopped)

\* C2 witness: an invocation reached END although the error indicator was
\* never cleared.
C2_Witness ==
  \E i \in Slots :
    /\ inv[i].pc = "END"
    /\ inv[i].entry = "profiler"
    /\ inv[i].allErr
    /\ Truthy(inv[i].st.error_log)

\* The input of a follow-up: a non-empty user_query and csv_path given as None.
IsFollowUpInput(inp) ==
  /\ Has(inp, "user_query") /\ Truthy(inp.user_query)
  /\ Has(inp, "csv_path") /\ inp.csv_path = Null
  /\ DOMAIN inp = {"user_query", "csv_path"}

\* C3: an invocation whose input has a non-empty user_query and csv_path None
\* starts at chat; an invocation whose input has a non-empty csv_path starts at
\* profiler, whatever user_query the input or the checkpoint holds.
C3_EntryRouting ==
  \A i \in Slots :
    InFlight(i) =>
      /\ IsFollowUpInput(inv[i].inp) => inv[i].entry = "chat"
      /\ Truthy(Get(inv[i].inp, "csv_path")) => inv[i].entry = "profiler"

\* C3 witness: the abbreviated path on a session whose checkpoint holds a
\* csv_path from a full run.
C3_Witness ==
  \E i \in Slots :
    /\ InFlight(i)
    /\ IsFollowUpInput(inv[i].inp)
    /\ Truthy(Get(inv[i].base, "csv_path"))
    /\ inv[i].entry = "chat"

C5_Resume ==
  \A i \in Slots :
    (/\ inv[i].pc = "END"
     /\ IsFollowUpInput(inv[i].inp)
     /\ Has(inv[i].base, "data_profile")) =>
      /\ Has(inv[i].st, "data_profile")
      /\ inv[i].st.data_profile = inv[i].base.data_profile
      /\ Len(inv[i].st.chat_history) = Len(inv[i].base.chat_history) + 1
      /\ Load(ckpt, inv[i].sess) = inv[i].st

\* C5 witness: a follow-up has ended on a session that already had a full
\* analysis and an earlier answer in its history.
C5_Witness ==
  \E i \in Slots :
    /\ inv[i].pc = "END"
    /\ IsFollowUpInput(inv[i].inp)
    /\ Has(inv[i].base, "data_profile")
    /\ inv[i].base.data_profile.graded
    /\ Len(inv[i].base.chat_history) > 0

\* The input values in the checkpoint of session s are those of s.
OwnValuesOnly(s) ==
  /\ Get(ckpt[s], "csv_path") \in {Null, UploadPath(s), CleanedPath}
  /\ Get(ckpt[s], "user_query") \in {Null, Query(s)}
  /\ \A k \in 1..Len(ckpt[s].chat_history) : ckpt[s].chat_history[k].q = Query(s)

C8_CheckpointAfterEveryNode ==
  /\ [](\A i \in Slots :
          inv[i].pc \in Running => Load(ckpt, inv[i].sess) = inv[i].st)
  /\ [][\A i \in Slots :
          (inv[i].pc \in Running /\ inv'[i] # inv[i] /\ inv'[i].pc # "aborted") =>
            /\ mrg'.pre = inv[i].st
            /\ inv'[i].st = Merge(inv[i].st, mrg'.upd)
            /\ Load(ckpt', inv[i].sess) = inv'[i].st]_vars

\* C8 witness: coder has run a second time, and its effect and that of the
\* executor run before it are in the checkpoint.
C8_Witness ==
  \E i \in Slots :
    /\ inv[i].pc = "executor"
    /\ inv[i].execRuns >= 1
    /\ Load(ckpt, inv[i].sess) = inv[i].st
    /\ inv[i].st.retry_count = inv[i].execRuns

\* C9: when a node raises, the invocation aborts with the checkpoint left as
\* it was, equal to the state after the last node that completed; an aborted
\* invocation runs no further node, and its caller gets the error answer.
C9_AbortOnRaise ==
  [][\A i \in Slots :
       /\ (inv[i].pc \in Running /\ inv'[i].pc = "aborted") =>
            /\ ckpt' = ckpt
            /\ inv'[i].st = inv[i].st
            /\ Load(ckpt', inv[i].sess) = inv[i].st
       /\ inv[i].pc = "aborted" =>
            \/ inv'[i] = inv[i]
            \/ inv'[i] = Idle /\ reply' = "500"
       /\ (inv[i].pc = "END" /\ inv'[i] # inv[i]) =>
            inv'[i] = Idle /\ reply' = "200"]_vars

\* C9 witness: auditor raised after profiler completed; the checkpoint holds
\* the profile as profiler left it.
C9_Witness ==
  \E i \in Slots :
    /\ inv[i].pc = "aborted"
    /\ inv[i].at = "auditor"
    /\ Has(inv[i].st, "data_profile")
    /\ ~inv[i].st.data_profile.graded
    /\ Load(ckpt, inv[i].sess) = inv[i].st

\* C10: in every merge, of an initial input or of a node's update, a REPLACE
\* field of the update takes the update's value, chat_history becomes the old
\* sequence followed by the update's, and a field the update lacks keeps its
\* value (or stays unset); the merged state is the invocation's state.
C10_MergePolicy ==
  /\ \A f \in Fields :
       /\ (f \in DOMAIN mrg.upd /\ f \in ReplaceFields) =>
            f \in DOMAIN mrg.post /\ mrg.post[f] = mrg.upd[f]
       /\ (f \in DOMAIN mrg.upd /\ f \in AppendFields) =>
            mrg.post[f] = mrg.pre[f] \o mrg.upd[f]
       /\ f \notin DOMAIN mrg.upd =>
            /\ f \in DOMAIN mrg.post <=> f \in DOMAIN mrg.pre
            /\ f \in DOMAIN mrg.pre => mrg.post[f] = mrg.pre[f]
  /\ \A i \in Slots : InFlight(i) => inv[i].st = mrg.post

\* C10 witness: a node's chat_history was appended to a non-empty history.
C10_Witness ==
  /\ "chat_history" \in DOMAIN mrg.upd
  /\ mrg.upd.chat_history # <<>>
  /\ mrg.pre.chat_history # <<>>
  /\ Len(mrg.post.chat_history) = Len(mrg.pre.chat_history) + 1

\* C11: an update that touches only REPLACE fields, merged a second time into
\* the state that merging it once gave, gives that state again; an update with
\* a non-empty chat_history, merged twice, gives the base sequence followed by
\* two copies of the update's sequence (and so not the state of merging it
\* once).  Checked for every update the program merges, on the state it was
\* merged into.
C11_MergeIdempotence ==
  IF "chat_history" \notin DOMAIN mrg.upd
    THEN Merge(mrg.post, mrg.upd) = mrg.post
  ELSE IF mrg.upd.chat_history = <<>>
    THEN TRUE
  ELSE /\ Merge(mrg.post, mrg.upd).chat_history =
            mrg.pre.chat_history \o mrg.upd.chat_history \o mrg.upd.chat_history
       /\ Merge(mrg.post, mrg.upd) # mrg.post

\* C11 witness: chat's answer was merged into a non-empty history; merging it
\* once more adds a second copy of it.
C11_Witness ==
  /\ "chat_history" \in DOMAIN mrg.upd
  /\ mrg.upd.chat_history # <<>>
  /\ mrg.pre.chat_history # <<>>
  /\ Len(Merge(mrg.post, mrg.upd).chat_history) = Len(mrg.pre.chat_history) + 2

\* C12: when executor returns, the cycle router is evaluated on the state with
\* executor's update merged: the next node is coder exactly when error_log is
\* non-empty and retry_count < 3, and analyst otherwise, also when error_log is
\* still non-empty.
C12_CycleRouter ==
  [][\A i \in Slots :
       (inv[i].pc = "executor" /\ inv'[i] # inv[i] /\ inv'[i].pc # "aborted") =>
         /\ inv'[i].st = Merge(inv[i].st, mrg'.upd)
         /\ inv'[i].pc = "coder" <=>
              (Truthy(inv'[i].st.error_log) /\ inv'[i].st.retry_count < 3)
         /\ inv'[i].pc # "coder" => inv'[i].pc = "analyst"]_vars

\* C12 witness: the router sent the run back to coder while the counter was
\* below the bound, and at the bound it forwarded to analyst with error_log
\* still set.
C12_Witness ==
  \E i \in Slots :
    /\ inv[i].pc = "analyst"
    /\ Truthy(inv[i].st.error_log)
    /\ inv[i].st.retry_count = 3
    /\ inv[i].st.viz_code = "code_fix"
    /\ mrg.post = inv[i].st
    /\ "retry_count" \in DOMAIN mrg.upd

\* The order of the graph: the pairs (node, node that may run next).
GraphOrder ==
  {<<"profiler", "auditor">>, <<"auditor", "sanitizer">>, <<"sanitizer", "kpi">>,
   <<"kpi", "context">>, <<"context", "strategist">>, <<"strategist", "coder">>,
   <<"coder", "executor">>, <<"executor", "coder">>, <<"executor", "analyst">>,
   <<"analyst", "pdf">>, <<"pdf", "END">>, <<"chat", "END">>}

\* C13: an invocation starts at its entry node, profiler or chat; each step of
\* it runs the one node it is at and moves along an edge of the graph order
\* (profiler, auditor, sanitizer, kpi, context, strategist, coder/executor
\* pairs, analyst, pdf, END; or chat, END) or aborts; the next node gets the
\* state with the previous node's update merged; analyst is reached only after
\* an executor run, and chat never runs in an invocation that entered at
\* profiler.
C13_GraphOrder ==
  /\ [](\A i \in Slots :
          /\ InFlight(i) => inv[i].entry \in {"profiler", "chat"}
          /\ inv[i].pc = "chat" => inv[i].entry = "chat"
          /\ (inv[i].pc \in Running /\ inv[i].entry = "chat") => inv[i].pc = "chat"
          /\ (inv[i].entry = "profiler" /\ inv[i].pc \in {"analyst", "pdf", "END"}) =>
               inv[i].execRuns >= 1)
  /\ [][\A i \in Slots :
          inv'[i] # inv[i] =>
            /\ inv[i].pc = "idle" => inv'[i].pc = inv'[i].entry
            /\ inv[i].pc \in Running =>
                 \/ inv'[i].pc = "aborted" /\ inv'[i].st = inv[i].st
                 \/ /\ <<inv[i].pc, inv'[i].pc>> \in GraphOrder
                    /\ inv'[i].st = Merge(inv[i].st, mrg'.upd)
                    /\ inv'[i].entry = inv[i].entry]_vars

\* C13 witness: a full-pipeline run has reached END after two (coder,
\* executor) pairs.
C13_Witness ==
  \E i \in Slots :
    /\ inv[i].pc = "END"
    /\ inv[i].entry = "profiler"
    /\ inv[i].execRuns = 2
    /\ Has(inv[i].st, "final_report")

\* retry_count is set in st, to n.
CounterIs(st, n) == Has(st, "retry_count") /\ st.retry_count = n

\* The cycle router has just been evaluated for invocation i: executor's
\* update is the last one merged.
RouterEvaluated(i) ==
  /\ inv[i].pc \in {"coder", "analyst"}
  /\ "retry_count" \in DOMAIN mrg.upd
  /\ mrg.post = inv[i].st

\* What C14 says of executor and of the router: a returning attempt adds
\* exactly 1 to retry_count, and when the router is evaluated retry_count is
\* the number of executor attempts of the invocation, within 1..3.
CounterAtRouter(i) ==
  RouterEvaluated(i) =>
    /\ mrg.post.retry_count = mrg.pre.retry_count + 1
    /\ inv[i].st.retry_count = inv[i].execRuns
    /\ inv[i].st.retry_count \in 1..3

\* C14 as stated: profiler leaves retry_count at 0 in every full-pipeline run,
\* and the counter is as CounterAtRouter says.
C14_ProfilerAlwaysResets ==
  \A i \in Slots :
    /\ inv[i].pc = "auditor" => CounterIs(inv[i].st, 0)
    /\ CounterAtRouter(i)

\* C14 amended: profiler leaves retry_count at 0 when the file at csv_path
\* exists; when it does not, profiler leaves it at 5 and the run aborts in
\* auditor, before any executor attempt; past auditor retry_count is the
\* number of executor attempts of the invocation, and the counter is as
\* CounterAtRouter says.
C14_CounterTracksAttempts ==
  \A i \in Slots :
    /\ inv[i].pc = "auditor" =>
         IF Readable(inv[i].st, fd)
           THEN CounterIs(inv[i].st, 0)
           ELSE /\ CounterIs(inv[i].st, 5)
                /\ auditor_node(inv[i].st, fd) = {Raise}
    /\ (inv[i].entry = "profiler" /\ inv[i].pc \in Running \ {"profiler", "auditor"}) =>
         CounterIs(inv[i].st, inv[i].execRuns)
    /\ CounterAtRouter(i)

\* C14 witness: the router is evaluated after the first attempt of a re-run on
\* a session whose earlier run had used up its three attempts.
C14_Witness ==
  \E i \in Slots :
    /\ RouterEvaluated(i)
    /\ CounterIs(inv[i].base, 3)
    /\ inv[i].st.retry_count = 1
    /\ inv[i].execRuns = 1

\* C15 as stated: the node an invocation is at leaves the state mapping it is
\* called with as it was, nested values included, and the invocation's state
\* is the outcome of the last merge.
C15_ReadOnlyInput ==
  \A i \in Slots :
    inv[i].pc \in Running =>
      /\ StateAfter(inv[i].pc, inv[i].st, fd) = inv[i].st
      /\ inv[i].st = mrg.post

\* Sequence a is an initial part of sequence b.
IsPrefix(a, b) == Len(a) <= Len(b) /\ SubSeq(b, 1, Len(a)) = a

\* C16: in every step the checkpointed chat_history of every session has its
\* former value as a prefix (so it never shrinks, and every earlier value is a
\* prefix of every later one); a merged update whose chat_history is empty, as
\* profiler's is, leaves the history as it was; and the history an invocation
\* started from is a prefix of the one it has now.
C16_HistoryGrowsOnly ==
  /\ [](/\ ("chat_history" \in DOMAIN mrg.upd /\ mrg.upd.chat_history = <<>>) =>
             mrg.post.chat_history = mrg.pre.chat_history
        /\ \A i \in Slots :
             InFlight(i) =>
               IsPrefix(inv[i].base.chat_history,
                        Load(ckpt, inv[i].sess).chat_history))
  /\ [][\A s \in Sessions :
          IsPrefix(ckpt[s].chat_history, ckpt'[s].chat_history)]_vars

\* C16 witness: profiler has run again on a session that has a chat answer in
\* its history, and the history is still there.
C16_Witness ==
  \E i \in Slots :
    /\ inv[i].pc = "auditor"
    /\ "data_profile" \in DOMAIN mrg.upd
    /\ mrg.upd.chat_history = <<>>
    /\ mrg.pre.chat_history # <<>>
    /\ Load(ckpt, inv[i].sess).chat_history = mrg.pre.chat_history

\* C17 as stated: whenever an invocation is at the chat node, data_profile and
\* key_findings are set in its state.
C17_ChatHasAnalysis ==
  \A i \in Slots :
    inv[i].pc = "chat" =>
      Has(inv[i].st, "data_profile") /\ Has(inv[i].st, "key_findings")

\* The input that start_analysis sends for session s.
IsAnalysisInput(inp, s) == inp = [csv_path |-> UploadPath(s), user_query |-> Null]

\* An input that starts a full-pipeline run of session s on its upload.
IsFullPipelineInput(inp, s) == Get(inp, "csv_path") = UploadPath(s)

\* The nodes of a full-pipeline run from kpi to executor: those that run after
\* sanitizer and while the file at csv_path is still read.
ReadsCleaned == {"kpi", "context", "strategist", "coder", "executor"}

ChatFrame == Fields \ {"user_query", "csv_path", "chat_history"}

\* C19: while and after an invocation that entered at chat runs, the session's
\* checkpoint agrees with the checkpoint it started from on every field other
\* than user_query, csv_path and chat_history (set or unset alike); user_query
\* and csv_path are as the input gives them, or as before where it gives
\* none; chat_history is the former one, followed by at most the one answer.
C19_ChatFrame ==
  \A i \in Slots :
    (InFlight(i) /\ inv[i].entry = "chat") =>
      LET now == Load(ckpt, inv[i].sess)
          was == inv[i].base
      IN /\ \A f \in ChatFrame :
              /\ Has(now, f) <=> Has(was, f)
              /\ Has(was, f) => now[f] = was[f]
         /\ \A f \in {"user_query", "csv_path"} :
              IF Has(inv[i].inp, f)
                THEN Has(now, f) /\ now[f] = inv[i].inp[f]
                ELSE /\ Has(now, f) <=> Has(was, f)
                     /\ Has(was, f) => now[f] = was[f]
         /\ IsPrefix(was.chat_history, now.chat_history)
         /\ Len(now.chat_history) <= Len(was.chat_history) + 1

\* C19 witness: a follow-up has ended on a session with a finished analysis:
\* the checkpoint has the query, a null csv_path in place of the cleaned
\* file's path, and one answer more.
C19_Witness ==
  \E i \in Slots :
    /\ inv[i].pc = "END"
    /\ inv[i].entry = "chat"
    /\ Get(inv[i].base, "final_report") = "Report Generated"
    /\ Get(inv[i].base, "csv_path") = CleanedPath
    /\ Load(ckpt, inv[i].sess).csv_path = Null
    /\ Load(ckpt, inv[i].sess).user_query = Query(inv[i].sess)
    /\ Len(Load(ckpt, inv[i].sess).chat_history) = Len(inv[i].base.chat_history) + 1

====
